---- MODULE Spec2Model ----
(***************************************************************************)
(* A model of the url-shortener service (src/src/lib.rs): the sliding-     *)
(* window rate limiter, link creation with collision handling, link        *)
(* resolution with expiry and click recording, and the statistics queries. *)
(*                                                                         *)
(* Request handlers are async: each one is a sequence of steps, one per    *)
(* access to shared state (the rate limiter's mutex, one SQL statement, or *)
(* the country lookup), and the steps of concurrent requests interleave.   *)
(* The pure, request-local code between two such accesses is part of the   *)
(* step that follows it.                                                   *)
(*                                                                         *)
(* A string is a sequence of symbols; an Option is a sequence of length    *)
(* at most one (None is <<>>, Some(x) is <<x>>).                           *)
(***************************************************************************)
EXTENDS Integers, Sequences, FiniteSets, TLC

VARIABLES
    now,          \* the clock read by Instant::now() and OffsetDateTime::now_utc()
    limiter,      \* RateLimiter.inner: key -> admission instants
    urls,         \* table urls, in rowid order
    clicks,       \* table clicks, in id order
    pc,           \* per worker: where its request handler is suspended
    req,          \* per worker: the request being handled
    loc,          \* per worker: the handler's local variables
    resp,         \* the response the last step delivered, with its request
    created,      \* history: every successful createLink, [code, req, at]
    admitted,     \* history: key -> instants of all its admissions, never pruned
    resolutions   \* history: every redirect response, [code, ip, recorded]

vars == <<now, limiter, urls, clicks, pc, req, loc, resp, created, admitted, resolutions>>

-----------------------------------------------------------------------------
(* Bounds of the model.                                                    *)

NProcs == 2          \* concurrent request workers
Limit == 2           \* RateLimiter.limit as configured
Window == 2          \* RateLimiter.window as configured, in clock ticks

Procs == 1..NProcs

MaxTime == 2         \* the clock stops here
MaxResolutions == 2  \* redirect requests that get past the expiry check
MaxLost == 1         \* INSERTs into clicks the store fails
LimiterMaxTime == 4  \* the clock stops here when the limiter is studied
TopResolutions == 14 \* redirects when the country ranking is studied

-----------------------------------------------------------------------------
(* Options and strings.                                                    *)

None == <<>>
Some(x) == <<x>>
IsSome(o) == o # <<>>
Unwrap(o) == o[1]

Str(sym) == <<sym>>

Whitespace == {" ", "\n"}

RECURSIVE TrimStart(_)
TrimStart(s) ==
    IF s # <<>> /\ Head(s) \in Whitespace THEN TrimStart(Tail(s)) ELSE s

RECURSIVE TrimEnd(_)
TrimEnd(s) ==
    IF s # <<>> /\ s[Len(s)] \in Whitespace
    THEN TrimEnd(SubSeq(s, 1, Len(s) - 1))
    ELSE s

\* str::trim
Trim(s) == TrimEnd(TrimStart(s))

\* str::starts_with, for a prefix that is one symbol of the model
StartsWith(s, prefix) == s # <<>> /\ Head(s) = prefix

\* v.split(',').next(): the text before the first comma
RECURSIVE SplitFirst(_)
SplitFirst(s) ==
    IF s = <<>> \/ Head(s) = "," THEN <<>> ELSE <<Head(s)>> \o SplitFirst(Tail(s))

Range(s) == {s[i] : i \in 1..Len(s)}

\* char::is_ascii_alphanumeric over the symbols the model uses
AsciiAlphanumeric == {"a", "b", "c", "B", "Z", "z", "3", "9"}

-----------------------------------------------------------------------------
(* Timestamps.  An RFC 3339 string is <<"ts", instant>>; any other string  *)
(* fails to parse.                                                         *)

Rfc3339Format(t) == <<"ts", t>>

Rfc3339Parse(s) == IF Len(s) = 2 /\ s[1] = "ts" THEN Some(s[2]) ELSE None

-----------------------------------------------------------------------------
(* Pure functions of lib.rs.                                               *)

CODE_LEN == 7
MAX_ATTEMPTS == 8
CUSTOM_MIN == 3
CUSTOM_MAX == 32
TOP_COUNTRIES == 10

\* What thread_rng().sample_iter(&Alphanumeric) may yield: streams of
\* alphanumeric symbols, each longer than a code.
RandomStreams ==
    { <<"a", "B", "3", "a", "B", "3", "a", "B">>,
      <<"Z", "z", "9", "Z", "z", "9", "Z", "z">> }

gen_code(stream) == SubSeq(stream, 1, CODE_LEN)

validate_custom_code(code) ==
    IF ~(Len(code) \in CUSTOM_MIN..CUSTOM_MAX)
    THEN "custom_code must be 3-32 characters"
    ELSE IF ~(\A i \in 1..Len(code) : code[i] \in AsciiAlphanumeric \cup {"-", "_"})
    THEN "custom_code must be alphanumeric (plus - and _)"
    ELSE "ok"

normalize_url_untrimmed(input) ==
    IF StartsWith(Trim(input), "http://") \/ StartsWith(Trim(input), "https://")
    THEN Some(input)
    ELSE None

normalize_url(input) ==
    LET trimmed == Trim(input)
    IN  IF StartsWith(trimmed, "http://") \/ StartsWith(trimmed, "https://")
        THEN Some(trimmed)
        ELSE None

\* headers: [xff, cf_ipcountry, x_geo_country, x_country], each an Option
client_ip_from_headers(headers) ==
    IF IsSome(headers.xff)
    THEN LET first == Trim(SplitFirst(Unwrap(headers.xff)))
         IN  IF first # <<>> THEN Some(first) ELSE None
    ELSE None

LOCAL_KEY == <<"local">>

\* client_ip_from_headers(..).unwrap_or_else(|| "local".to_string())
ClientIpOrLocal(headers) ==
    LET ip == client_ip_from_headers(headers)
    IN  IF IsSome(ip) THEN Unwrap(ip) ELSE LOCAL_KEY

is_expired_inverted(expires_at, t) ==
    IF expires_at = None THEN FALSE
    ELSE LET exp == Rfc3339Parse(Unwrap(expires_at))
         IN  IF exp = None THEN TRUE ELSE t <= Unwrap(exp)

is_expired_strict(expires_at, t) ==
    IF expires_at = None THEN FALSE
    ELSE LET exp == Rfc3339Parse(Unwrap(expires_at))
         IN  IF exp = None THEN TRUE ELSE t > Unwrap(exp)

\* is_expired, with the value OffsetDateTime::now_utc() returns as t
is_expired(expires_at, t) ==
    IF expires_at = None THEN FALSE
    ELSE LET exp == Rfc3339Parse(Unwrap(expires_at))
         IN  IF exp = None THEN TRUE ELSE t >= Unwrap(exp)

CountryHeaders == <<"cf_ipcountry", "x_geo_country", "x_country">>

RECURSIVE CountryFrom(_, _)
CountryFrom(headers, i) ==
    IF i > Len(CountryHeaders) THEN None
    ELSE LET v == headers[CountryHeaders[i]]
         IN  IF IsSome(v) /\ Trim(Unwrap(v)) # <<>>
             THEN Some(Trim(Unwrap(v)))
             ELSE CountryFrom(headers, i + 1)

country_from_headers(headers) == CountryFrom(headers, 1)

\* The prefixes is_private_or_local_ip tests; an address of the model
\* starts with one of them as its first symbol or with none.
PrivatePrefixes ==
    {"10.", "192.168.", "172.16.", "172.17.", "172.18.", "172.19.", "172.2",
     "172.30.", "172.31."}

is_private_or_local_ip(ip) ==
    \/ ip = Str("127.0.0.1")
    \/ ip = Str("::1")
    \/ \E pre \in PrivatePrefixes : StartsWith(ip, pre)

\* geo_country_lookup after the HTTP exchange: reply is None when the
\* request failed or timed out, else Some(body text)
GeoCountryFromReply(reply) ==
    IF reply = None THEN None
    ELSE LET code == Trim(Unwrap(reply))
         IN  IF Len(code) = 2 THEN Some(code) ELSE None

-----------------------------------------------------------------------------
(* Requests, handler locals and responses.                                 *)

NoHeaders == [xff |-> None, cf_ipcountry |-> None, x_geo_country |-> None,
              x_country |-> None]

ReqInit == [op |-> "none", headers |-> NoHeaders, url |-> <<>>,
            custom_code |-> None, expires_at |-> None, code |-> <<>>]

\* since and checked are not variables of the code: the number of redirect
\* responses delivered before the request began, and the instant at which
\* redirect called is_expired.
LocInit == [target |-> <<>>, attempts |-> 0, ip |-> <<>>, country |-> None,
            total_clicks |-> 0, unique_visitors |-> 0, since |-> 0,
            checked |-> 0]

\* resp observes the last step: the response it delivered and the request
\* that response answers, or NoResp when the step delivered none.  status
\* "PANIC": the handler panicked and the connection was closed unanswered.
\* Three fields report what the handler met: attempts, the INSERTs into
\* urls it issued; fault, the statement of the step that the store failed
\* ("none" when it served them all; a uniqueness violation is an answer,
\* not a fault); since, as in LocInit.
NoResp == [req |-> ReqInit, status |-> "NONE", body |-> "", code |-> <<>>,
           location |-> <<>>, total_clicks |-> 0, unique_visitors |-> 0,
           top_countries |-> <<>>, attempts |-> 0, fault |-> "none",
           since |-> 0, links |-> <<>>]

\* The handler of worker p returns response r to request q.
Respond(p, q, r) ==
    /\ resp' = [r EXCEPT !.req = q]
    /\ created' = IF q.op = "shorten" /\ r.status = "OK"
                  THEN Append(created, [code |-> r.code, req |-> q, at |-> now])
                  ELSE created
    /\ pc' = [pc EXCEPT ![p] = "idle"]
    /\ req' = [req EXCEPT ![p] = ReqInit]
    /\ loc' = [loc EXCEPT ![p] = LocInit]

\* The handler of worker p stores request q and suspends at `at`.
Suspend(p, q, at, l) ==
    /\ pc' = [pc EXCEPT ![p] = at]
    /\ req' = [req EXCEPT ![p] = q]
    /\ loc' = [loc EXCEPT ![p] = l]
    /\ resp' = NoResp
    /\ UNCHANGED created

ErrorResp(status, body) == [NoResp EXCEPT !.status = status, !.body = body]

\* fn internal: (INTERNAL_SERVER_ERROR, "internal error: {e}"), for the
\* sqlx::Error of statement stmt
internal(stmt) ==
    [ErrorResp("INTERNAL_SERVER_ERROR", "internal error") EXCEPT !.fault = stmt]

Init ==
    /\ now = 1
    /\ limiter = <<>>
    /\ urls = <<>>
    /\ clicks = <<>>
    /\ pc = [p \in Procs |-> "idle"]
    /\ req = [p \in Procs |-> ReqInit]
    /\ loc = [p \in Procs |-> LocInit]
    /\ resp = NoResp
    /\ created = <<>>
    /\ admitted = <<>>
    /\ resolutions = <<>>

\* Time passes between any two steps.
Tick(maxTime) ==
    /\ now < maxTime
    /\ now' = now + 1
    /\ resp' = NoResp
    /\ UNCHANGED <<limiter, urls, clicks, pc, req, loc, created, admitted,
                   resolutions>>

-----------------------------------------------------------------------------
(* The rate limiter.  allow holds the mutex for its whole body, so it is   *)
(* one step.                                                               *)

LimiterEntryUnshared(key) == <<>>

\* map.entry(key.to_string()).or_default(), under the lock of `inner`
LimiterEntry(key) == IF key \in DOMAIN limiter THEN limiter[key] ELSE <<>>

RetainInclusive(entry, t) == SelectSeq(entry, LAMBDA x : t - x <= Window)

\* entry.retain(|t| now.duration_since(*t) < self.window)
Retain(entry, t) == SelectSeq(entry, LAMBDA x : t - x < Window)

allow_recording_rejections(key, ok) ==
    LET entry == Retain(LimiterEntry(key), now)
        put(e) == [k \in DOMAIN limiter \cup {key} |->
                     IF k = key THEN e ELSE limiter[k]]
    IN  IF Len(entry) >= Limit
        THEN /\ ok = FALSE
             /\ limiter' = put(Append(entry, now))
             /\ UNCHANGED admitted
        ELSE /\ ok = TRUE
             /\ limiter' = put(Append(entry, now))
             /\ admitted' = [k \in DOMAIN admitted \cup {key} |->
                               IF k = key
                               THEN Append(IF key \in DOMAIN admitted
                                           THEN admitted[key] ELSE <<>>, now)
                               ELSE admitted[k]]

\* RateLimiter::allow; ok is the value it returns
allow(key, ok) ==
    LET entry == Retain(LimiterEntry(key), now)
        put(e) == [k \in DOMAIN limiter \cup {key} |->
                     IF k = key THEN e ELSE limiter[k]]
    IN  IF Len(entry) >= Limit
        THEN /\ ok = FALSE
             /\ limiter' = put(entry)
             /\ UNCHANGED admitted
        ELSE /\ ok = TRUE
             /\ limiter' = put(Append(entry, now))
             /\ admitted' = [k \in DOMAIN admitted \cup {key} |->
                               IF k = key
                               THEN Append(IF key \in DOMAIN admitted
                                           THEN admitted[key] ELSE <<>>, now)
                               ELSE admitted[k]]

-----------------------------------------------------------------------------
(* The store.  Every statement is atomic; none is part of a transaction.   *)
(* A statement may fail for reasons of the store's own (pool timeout,      *)
(* database locked, I/O): the handlers see that as an sqlx::Error.         *)

\* The uniqueness constraint on urls.code, declared by the migrations.
UniqueViolation(code) == \E i \in 1..Len(urls) : urls[i].code = code

InsertResults == {"Ok", "CodeTaken", "Other"}

insert_url_replacing(code, target_url, expires_at, created_ip, res) ==
    LET row == [code |-> code, target_url |-> target_url,
                created_at |-> Rfc3339Format(now), expires_at |-> expires_at,
                created_ip |-> created_ip]
    IN  \/ /\ res = "Ok"
           /\ urls' = IF UniqueViolation(code)
                      THEN [i \in 1..Len(urls) |->
                              IF urls[i].code = code THEN row ELSE urls[i]]
                      ELSE Append(urls, row)
        \/ /\ res = "Other"
           /\ UNCHANGED urls

\* insert_url: one INSERT INTO urls; res is the Result it returns
insert_url(code, target_url, expires_at, created_ip, res) ==
    LET created_at == Rfc3339Format(now)
        row == [code |-> code, target_url |-> target_url,
                created_at |-> created_at, expires_at |-> expires_at,
                created_ip |-> created_ip]
    IN  \/ /\ res = "Ok"
           /\ ~UniqueViolation(code)
           /\ urls' = Append(urls, row)
        \/ /\ res = "CodeTaken"            \* is_unique_violation(&e)
           /\ UniqueViolation(code)
           /\ UNCHANGED urls
        \/ /\ res = "Other"                \* any other sqlx::Error
           /\ UNCHANGED urls

SelectUrlUnexpired(code) ==
    LET hits == SelectSeq(urls, LAMBDA r : r.code = code
                                   /\ ~is_expired(r.expires_at, now))
    IN  IF hits = <<>> THEN None ELSE Some(hits[1])

\* SELECT ... FROM urls WHERE code = ?  (fetch_optional)
SelectUrl(code) ==
    LET hits == SelectSeq(urls, LAMBDA r : r.code = code)
    IN  IF hits = <<>> THEN None ELSE Some(hits[1])

-----------------------------------------------------------------------------
(* POST /api/shorten: rate_limit_middleware, then shorten.                 *)

rate_limit_key_shared(headers) == LOCAL_KEY

rate_limit_key_raw(headers) ==
    IF IsSome(headers.xff) THEN Unwrap(headers.xff) ELSE LOCAL_KEY

\* rate_limit_middleware's key
rate_limit_key(headers) == ClientIpOrLocal(headers)

ShortenRequestValidatingFirst(p, headers, payload) ==
    /\ pc[p] = "idle"
    /\ LET q == [ReqInit EXCEPT !.op = "shorten", !.headers = headers,
                                !.url = payload.url,
                                !.custom_code = payload.custom_code,
                                !.expires_at = payload.expires_at]
       IN  IF normalize_url(q.url) = None
           THEN /\ Respond(p, q, ErrorResp("BAD_REQUEST",
                                  "url must start with http:// or https://"))
                /\ UNCHANGED <<limiter, admitted>>
           ELSE \E ok \in BOOLEAN :
                  /\ allow(rate_limit_key(headers), ok)
                  /\ IF ok
                     THEN Suspend(p, q, "shorten", LocInit)
                     ELSE Respond(p, q, ErrorResp("TOO_MANY_REQUESTS",
                                   "rate limit exceeded (10 requests/minute)"))
    /\ UNCHANGED <<now, urls, clicks, resolutions>>

\* Step 1: the middleware.  A rejected request ends here.
ShortenRequest(p, headers, payload) ==
    /\ pc[p] = "idle"
    /\ LET q == [ReqInit EXCEPT !.op = "shorten", !.headers = headers,
                                !.url = payload.url,
                                !.custom_code = payload.custom_code,
                                !.expires_at = payload.expires_at]
       IN  \E ok \in BOOLEAN :
             /\ allow(rate_limit_key(headers), ok)
             /\ IF ok
                THEN Suspend(p, q, "shorten", LocInit)
                ELSE Respond(p, q, ErrorResp("TOO_MANY_REQUESTS",
                                   "rate limit exceeded (10 requests/minute)"))
    /\ UNCHANGED <<now, urls, clicks, resolutions>>

ShortenValidateCodeFirst(r) ==
    IF normalize_url(r.url) = None
    THEN "url must start with http:// or https://"
    ELSE IF IsSome(r.custom_code)
            /\ validate_custom_code(Unwrap(r.custom_code)) # "ok"
    THEN validate_custom_code(Unwrap(r.custom_code))
    ELSE IF IsSome(r.expires_at) /\ Rfc3339Parse(Unwrap(r.expires_at)) = None
    THEN "expires_at must be RFC3339 (e.g. 2026-01-31T00:00:00Z)"
    ELSE "ok"

\* The validations of shorten, in the order the handler makes them.
ShortenValidate(r) ==
    IF normalize_url(r.url) = None
    THEN "url must start with http:// or https://"
    ELSE IF IsSome(r.expires_at) /\ Rfc3339Parse(Unwrap(r.expires_at)) = None
    THEN "expires_at must be RFC3339 (e.g. 2026-01-31T00:00:00Z)"
    ELSE IF IsSome(r.custom_code)
    THEN validate_custom_code(Unwrap(r.custom_code))
    ELSE "ok"

\* Json(ShortenResp { code, .. })
ShortenOk(code, attempts) ==
    [NoResp EXCEPT !.status = "OK", !.code = code, !.attempts = attempts]

CustomInsertResponseIgnoringConflict(code, res) ==
    IF res = "Other"
    THEN [internal("urls_insert") EXCEPT !.attempts = 1]
    ELSE ShortenOk(code, 1)

CustomInsertResponseAllConflict(code, res) ==
    CASE res = "Ok" -> ShortenOk(code, 1)
      [] res = "CodeTaken" ->
            [ErrorResp("CONFLICT", "code already exists") EXCEPT !.attempts = 1]
      [] res = "Other" ->
            [ErrorResp("CONFLICT", "code already exists")
                EXCEPT !.attempts = 1, !.fault = "urls_insert"]

\* shorten, custom code path: the Result of the one insert_url as a response
CustomInsertResponse(code, res) ==
    CASE res = "Ok" -> ShortenOk(code, 1)
      [] res = "CodeTaken" ->
            [ErrorResp("CONFLICT", "code already exists") EXCEPT !.attempts = 1]
      [] res = "Other" ->
            [internal("urls_insert") EXCEPT !.attempts = 1]

AttemptsLeftInclusive(k) == k <= MAX_ATTEMPTS

\* `for _ in 0..MAX_ATTEMPTS`: whether a turn follows turn number k
AttemptsLeft(k) == k < MAX_ATTEMPTS

\* One turn of the loop `for _ in 0..MAX_ATTEMPTS`: attempt number k.
ShortenAttempt(p, target, k) ==
    \E stream \in RandomStreams, res \in InsertResults :
        LET r == req[p]
            candidate == gen_code(stream)
        IN  /\ insert_url(candidate, target, r.expires_at,
                          client_ip_from_headers(r.headers), res)
            /\ CASE res = "Ok" ->
                      Respond(p, r, ShortenOk(candidate, k))
                 [] res = "CodeTaken" /\ AttemptsLeft(k) ->
                      Suspend(p, r, "shorten_retry",
                              [LocInit EXCEPT !.target = target, !.attempts = k])
                 [] res = "CodeTaken" /\ ~AttemptsLeft(k) ->
                      Respond(p, r, [ErrorResp("INTERNAL_SERVER_ERROR",
                                       "internal error: failed to generate code")
                                        EXCEPT !.attempts = k])
                 [] res = "Other" ->
                      Respond(p, r, [internal("urls_insert")
                                        EXCEPT !.attempts = k])

\* Step 2: shorten up to and including its first INSERT.
ShortenHandler(p) ==
    /\ pc[p] = "shorten"
    /\ LET r == req[p]
           v == ShortenValidate(r)
           target == Unwrap(normalize_url(r.url))
       IN  IF v # "ok"
           THEN /\ Respond(p, r, ErrorResp("BAD_REQUEST", v))
                /\ UNCHANGED urls
           ELSE IF IsSome(r.custom_code)
           THEN \E res \in InsertResults :
                    LET custom == Unwrap(r.custom_code)
                    IN  /\ insert_url(custom, target, r.expires_at,
                                      client_ip_from_headers(r.headers), res)
                        /\ Respond(p, r, CustomInsertResponse(custom, res))
           ELSE ShortenAttempt(p, target, 1)
    /\ UNCHANGED <<now, limiter, clicks, admitted, resolutions>>

\* Step 3: a later turn of the loop, after a collision.
ShortenRetry(p) ==
    /\ pc[p] = "shorten_retry"
    /\ ShortenAttempt(p, loc[p].target, loc[p].attempts + 1)
    /\ UNCHANGED <<now, limiter, clicks, admitted, resolutions>>

-----------------------------------------------------------------------------
(* GET /:code: redirect.                                                   *)

InFlightRedirects == Cardinality({q \in Procs : req[q].op = "redirect"})

\* Step 1: the SELECT, the expiry check and the country headers.  The
\* `.unwrap()` on the SELECT's Result panics when the statement fails.
RedirectRequest(p, code, headers, maxResolutions) ==
    /\ pc[p] = "idle"
    /\ Len(resolutions) + InFlightRedirects < maxResolutions
    /\ \E fault \in BOOLEAN :
         LET q == [ReqInit EXCEPT !.op = "redirect", !.headers = headers,
                                  !.code = code]
             row == SelectUrl(code)
         IN  IF fault
             THEN Respond(p, q, [ErrorResp("PANIC", "")
                                    EXCEPT !.fault = "urls_select"])
             ELSE IF row = None
             THEN Respond(p, q, ErrorResp("NOT_FOUND", "Not found"))
             ELSE IF is_expired(Unwrap(row).expires_at, now)
             THEN Respond(p, q, ErrorResp("GONE", "This link has expired"))
             ELSE LET country == country_from_headers(headers)
                      ip_opt == client_ip_from_headers(headers)
                      lookup == /\ country = None
                                /\ IsSome(ip_opt)
                                /\ ~is_private_or_local_ip(Unwrap(ip_opt))
                  IN  Suspend(p, q,
                              IF lookup THEN "redirect_lookup"
                              ELSE "redirect_insert",
                              [LocInit EXCEPT !.target = Unwrap(row).target_url,
                                              !.ip = ClientIpOrLocal(headers),
                                              !.country = country,
                                              !.checked = now])
    /\ UNCHANGED <<now, limiter, urls, clicks, admitted, resolutions>>

\* What ipapi.co may answer; None is a failed or timed-out exchange.
GeoReplies == {None, Some(<<"R", "O", "\n">>), Some(<<"U", "n", "d", "e", "f">>)}

RedirectLookupPropagating(p) ==
    /\ pc[p] = "redirect_lookup"
    /\ \E reply \in GeoReplies :
         IF reply = None
         THEN Respond(p, req[p], internal("none"))
         ELSE Suspend(p, req[p], "redirect_insert",
                      [loc[p] EXCEPT !.country = GeoCountryFromReply(reply)])
    /\ UNCHANGED <<now, limiter, urls, clicks, admitted, resolutions>>

\* Step 2, only when no country header is set and the address is public:
\* geo_country_lookup's HTTP exchange (at most 2 s).
RedirectLookup(p) ==
    /\ pc[p] = "redirect_lookup"
    /\ \E reply \in GeoReplies :
         Suspend(p, req[p], "redirect_insert",
                 [loc[p] EXCEPT !.country = GeoCountryFromReply(reply)])
    /\ UNCHANGED <<now, limiter, urls, clicks, admitted, resolutions>>

insert_click_dropped(code, ip, country, inserted) == clicks

insert_click_undated(code, ip, country, inserted) ==
    IF inserted
    THEN Append(clicks, [code |-> code, at |-> Rfc3339Format(0), ip |-> ip,
                         country |-> country])
    ELSE clicks

insert_click_overwriting(code, ip, country, inserted) ==
    LET row == [code |-> code, at |-> Rfc3339Format(now), ip |-> ip,
                country |-> country]
    IN  IF ~inserted THEN clicks
        ELSE IF clicks = <<>> THEN <<row>>
        ELSE [clicks EXCEPT ![Len(clicks)] = row]

\* INSERT INTO clicks (code, at, ip, .., country, ..): the table afterwards;
\* inserted is whether the store executed the statement.
insert_click(code, ip, country, inserted) ==
    IF inserted
    THEN Append(clicks, [code |-> code, at |-> Rfc3339Format(now), ip |-> ip,
                         country |-> country])
    ELSE clicks

\* The failed INSERTs into clicks so far.
Lost == Len(SelectSeq(resolutions, LAMBDA e : ~e.recorded))

\* Redirect::temporary(&target)
RedirectTemporary(target, inserted) ==
    [NoResp EXCEPT !.status = "TEMPORARY_REDIRECT", !.location = target,
                   !.fault = IF inserted THEN "none" ELSE "clicks_insert"]

RedirectAfterInsertPropagating(target, inserted) ==
    IF inserted
    THEN RedirectTemporary(target, inserted)
    ELSE internal("clicks_insert")

\* The response of redirect after its INSERT INTO clicks: the statement's
\* Result (inserted: whether it succeeded) is dropped by `let _ =`.
RedirectAfterInsert(target, inserted) == RedirectTemporary(target, inserted)

\* Step 3: the INSERT INTO clicks and the response.
RedirectInsert(p, maxLost) ==
    /\ pc[p] = "redirect_insert"
    /\ \E inserted \in BOOLEAN :
         LET r == req[p]
             l == loc[p]
             out == RedirectAfterInsert(l.target, inserted)
         IN  /\ inserted \/ Lost < maxLost
             /\ clicks' = insert_click(r.code, l.ip, l.country, inserted)
             /\ Respond(p, r, out)
             /\ resolutions' =
                  IF out.status = "TEMPORARY_REDIRECT"
                  THEN Append(resolutions, [code |-> r.code, ip |-> l.ip,
                                            recorded |-> inserted])
                  ELSE resolutions
    /\ UNCHANGED <<now, limiter, urls, admitted>>

-----------------------------------------------------------------------------
(* GET /api/links/:code/stats: query_stats, one SELECT per step.           *)

ClicksOf(code) == SelectSeq(clicks, LAMBDA c : c.code = code)

\* SELECT count(*) FROM clicks WHERE code = ?
CountClicks(code) == Len(ClicksOf(code))

CountIps(code) == Len(ClicksOf(code))

\* SELECT count(DISTINCT ip) FROM clicks WHERE code = ? AND ip IS NOT NULL
CountDistinctIps(code) ==
    Cardinality({ClicksOf(code)[i].ip : i \in 1..Len(ClicksOf(code))})

\* GROUP BY country over the rows WHERE code = ? AND country IS NOT NULL;
\* first is the group's oldest row.
CountryGroups(code) ==
    LET rows == SelectSeq(ClicksOf(code), LAMBDA c : IsSome(c.country))
        names == {Unwrap(rows[i].country) : i \in 1..Len(rows)}
    IN  { [country |-> n,
           clicks |-> Len(SelectSeq(rows, LAMBDA c : Unwrap(c.country) = n)),
           first |-> CHOOSE i \in 1..Len(rows) :
                        /\ Unwrap(rows[i].country) = n
                        /\ \A j \in 1..(i - 1) : Unwrap(rows[j].country) # n]
          : n \in names }

\* SQL leaves the order of rows with equal counts open: the model lets the
\* store break ties by first appearance, oldest first or newest first.
TieBreaks == {"oldest", "newest"}

OrderByClicksAscending(g, h, tie) ==
    \/ g.clicks < h.clicks
    \/ /\ g.clicks = h.clicks
       /\ IF tie = "oldest" THEN g.first < h.first ELSE g.first > h.first

\* ORDER BY clicks DESC: whether group g comes before group h
OrderByClicks(g, h, tie) ==
    \/ g.clicks > h.clicks
    \/ /\ g.clicks = h.clicks
       /\ IF tie = "oldest" THEN g.first < h.first ELSE g.first > h.first

RECURSIVE OrderLimit(_, _, _)
\* ORDER BY clicks DESC LIMIT n
OrderLimit(groups, n, tie) ==
    IF n = 0 \/ groups = {} THEN <<>>
    ELSE LET top == CHOOSE g \in groups :
                       \A h \in groups \ {g} : OrderByClicks(g, h, tie)
         IN  <<[country |-> top.country, clicks |-> top.clicks]>>
             \o OrderLimit(groups \ {top}, n - 1, tie)

\* The country_rows query of query_stats
TopCountries(code, tie) == OrderLimit(CountryGroups(code), TOP_COUNTRIES, tie)

StatsFail(p, q, stmt) ==
    Respond(p, q, [internal(stmt) EXCEPT !.since = loc[p].since])

\* Step 1: SELECT target_url, created_at, expires_at FROM urls
StatsRequest(p, code) ==
    /\ pc[p] = "idle"
    /\ LET q == [ReqInit EXCEPT !.op = "stats", !.code = code]
       IN  \E fault \in BOOLEAN :
             IF fault
             THEN Respond(p, q, internal("urls_select"))
             ELSE IF SelectUrl(code) = None
             THEN Respond(p, q, ErrorResp("NOT_FOUND", "not found"))
             ELSE Suspend(p, q, "stats_total",
                          [LocInit EXCEPT !.since = Len(resolutions)])
    /\ UNCHANGED <<now, limiter, urls, clicks, admitted, resolutions>>

\* Step 2: SELECT count(*)
StatsTotal(p) ==
    /\ pc[p] = "stats_total"
    /\ \E fault \in BOOLEAN :
         IF fault THEN StatsFail(p, req[p], "clicks_select")
         ELSE Suspend(p, req[p], "stats_unique",
                      [loc[p] EXCEPT !.total_clicks = CountClicks(req[p].code)])
    /\ UNCHANGED <<now, limiter, urls, clicks, admitted, resolutions>>

\* Step 3: SELECT count(DISTINCT ip)
StatsUnique(p) ==
    /\ pc[p] = "stats_unique"
    /\ \E fault \in BOOLEAN :
         IF fault THEN StatsFail(p, req[p], "clicks_select")
         ELSE Suspend(p, req[p], "stats_countries",
                      [loc[p] EXCEPT !.unique_visitors =
                                        CountDistinctIps(req[p].code)])
    /\ UNCHANGED <<now, limiter, urls, clicks, admitted, resolutions>>

\* Step 4: the country_rows query and the response.  (The daily and the
\* recent-clicks queries, which no step of the model reads, fail or
\* succeed with it.)
StatsCountries(p) ==
    /\ pc[p] = "stats_countries"
    /\ \E fault \in BOOLEAN :
         IF fault THEN StatsFail(p, req[p], "clicks_select")
         ELSE \E tie \in TieBreaks :
                Respond(p, req[p],
                        [NoResp EXCEPT
                           !.status = "OK",
                           !.code = req[p].code,
                           !.total_clicks = loc[p].total_clicks,
                           !.unique_visitors = loc[p].unique_visitors,
                           !.since = loc[p].since,
                           !.top_countries = TopCountries(req[p].code, tie)])
    /\ UNCHANGED <<now, limiter, urls, clicks, admitted, resolutions>>

-----------------------------------------------------------------------------
(* GET /api/links: list_links, the one SELECT of query_link_summaries.     *)

\* The characters (as code points) of the RFC3339 text of instant t from
\* its seconds field on, an instant being a tenth of a second: two digits
\* of seconds, then "Z" when the subsecond part is zero and else ".", the
\* subsecond digits without trailing zeros, "Z".  The fields before have
\* one width and order as the instants do.
Rfc3339Text(t) ==
    <<48 + ((t \div 10) \div 10), 48 + ((t \div 10) % 10)>>
        \o (IF t % 10 = 0 THEN <<90>> ELSE <<46, 48 + (t % 10), 90>>)

\* Binary text comparison, as SQLite compares TEXT.
RECURSIVE LexLess(_, _)
LexLess(a, b) ==
    IF b = <<>> THEN FALSE
    ELSE IF a = <<>> THEN TRUE
    ELSE IF Head(a) # Head(b) THEN Head(a) < Head(b)
    ELSE LexLess(Tail(a), Tail(b))

\* The text comparison of ORDER BY on two created_at values.
TextLess(a, b) == LexLess(Rfc3339Text(a[2]), Rfc3339Text(b[2]))

\* ORDER BY u.created_at DESC: the orders in which the rows of urls may
\* come back; rows of equal created_at in any order.
ListOrders ==
    {f \in [1..Len(urls) -> 1..Len(urls)] :
        /\ \A i, j \in 1..Len(urls) : i # j => f[i] # f[j]
        /\ \A i, j \in 1..Len(urls) :
              i < j => ~TextLess(urls[f[i]].created_at, urls[f[j]].created_at)}

\* One row of the LEFT JOIN ... GROUP BY u.code as a LinkSummary.
LinkSummary(row) ==
    [code |-> row.code, target_url |-> row.target_url,
     created_at |-> row.created_at, expires_at |-> row.expires_at,
     expired |-> is_expired(row.expires_at, now),
     total_clicks |-> CountClicks(row.code),
     unique_visitors |-> CountDistinctIps(row.code)]

ListLinks(p) ==
    /\ pc[p] = "idle"
    /\ LET q == [ReqInit EXCEPT !.op = "list"]
       IN  \E fault \in BOOLEAN :
             IF fault
             THEN Respond(p, q, internal("urls_select"))
             ELSE \E f \in ListOrders :
                    Respond(p, q,
                            [NoResp EXCEPT
                               !.status = "OK",
                               !.links = [i \in 1..Len(urls) |->
                                            LinkSummary(urls[f[i]])]])
    /\ UNCHANGED <<now, limiter, urls, clicks, admitted, resolutions>>

-----------------------------------------------------------------------------
(* The requests clients send.                                              *)

UrlA == <<" ", "https://", "example.com/a", " ">>
UrlB == <<"http://", "example.com/b">>
UrlBad == <<"ftp://", "example.com">>

CodeAbc == <<"a", "b", "c">>
CodeCba == <<"c", "b", "a">>
CodeShort == <<"a", "b">>
CodeBadChar == <<"a", "!", "c">>
CodeLong == [i \in 1..(CUSTOM_MAX + 1) |-> "a"]

ExpPast == <<"ts", 0>>
ExpFuture == <<"ts", 2>>
ExpGarbage == <<"garbage", 0>>

Payload(url, custom_code, expires_at) ==
    [url |-> url, custom_code |-> custom_code, expires_at |-> expires_at]

Xff(v) == [NoHeaders EXCEPT !.xff = Some(v)]

HeadersPublic == Xff(<<" ", "1.2.3.4", ",", "5.6.7.8">>)
HeadersRO == [Xff(<<"9.9.9.9">>) EXCEPT !.cf_ipcountry = Some(<<" ", "R", "O">>)]

GeneratedCodes == {gen_code(st) : st \in RandomStreams}

-----------------------------------------------------------------------------
(* SpecCreate: concurrent link creation.  The clock stands still; two      *)
(* clients, each with its own rate-limit key, send creation requests.      *)

CreatePayloads ==
    { Payload(UrlA, None, None),
      Payload(UrlA, Some(CodeAbc), None),
      Payload(UrlB, Some(CodeAbc), Some(ExpPast)),
      Payload(UrlBad, Some(CodeShort), Some(ExpGarbage)),
      Payload(UrlA, Some(CodeBadChar), Some(ExpGarbage)),
      Payload(UrlA, Some(CodeShort), None),
      Payload(UrlB, Some(CodeBadChar), None),
      Payload(UrlB, Some(CodeLong), None) }

CreateHeaders == {NoHeaders, HeadersPublic}

CreateShorten(p) ==
    \E h \in CreateHeaders, payload \in CreatePayloads :
        ShortenRequest(p, h, payload)

NextCreate ==
    \E p \in Procs :
        \/ CreateShorten(p)
        \/ ShortenHandler(p)
        \/ ShortenRetry(p)

SpecCreate == Init /\ [][NextCreate]_vars

\* The successful creations of code c, oldest first.
Creations(c) == SelectSeq(created, LAMBDA e : e.code = c)

\* The last step answered a creation request that named a custom code and
\* that the limiter admitted, validation passed and the store served.
CustomCreateAnswered ==
    /\ resp.req.op = "shorten"
    /\ IsSome(resp.req.custom_code)
    /\ resp.status \notin {"TOO_MANY_REQUESTS", "BAD_REQUEST"}
    /\ resp.fault = "none"

\* C1: codes are unique among stored links, however creation requests
\* interleave: no two rows of urls and no two successful creations carry the
\* same code, and every creation request for a custom code that the store
\* arbitrates is answered with success or with Conflict, exactly one
\* request per code having succeeded.
C1_CodesUnique ==
    /\ \A i, j \in 1..Len(urls) : urls[i].code = urls[j].code => i = j
    /\ \A i, j \in 1..Len(created) : created[i].code = created[j].code => i = j
    /\ CustomCreateAnswered =>
          /\ resp.status \in {"OK", "CONFLICT"}
          /\ Len(Creations(Unwrap(resp.req.custom_code))) = 1

\* C1 witness: a race.  One request for a custom code has just succeeded
\* while another valid request for the same code, admitted before that
\* INSERT, is still in flight.
C1_Witness ==
    /\ CustomCreateAnswered
    /\ resp.status = "OK"
    /\ \E q \in Procs :
          /\ pc[q] = "shorten"
          /\ req[q].custom_code = resp.req.custom_code
          /\ ShortenValidate(req[q]) = "ok"

\* C2: a valid creation request naming a custom code makes exactly one
\* INSERT attempt; it succeeds when no earlier request created the code and
\* is answered Conflict when one did, and then the row of the first
\* creation is what that creation stored.
C2_SecondCreateConflicts ==
    /\ (/\ resp.req.op = "shorten"
        /\ IsSome(resp.req.custom_code)
        /\ resp.status \notin {"TOO_MANY_REQUESTS", "BAD_REQUEST"})
          => resp.attempts = 1
    /\ CustomCreateAnswered =>
          LET c == Unwrap(resp.req.custom_code)
              earlier == SelectSeq(SubSeq(created, 1, Len(created) -
                                     (IF resp.status = "OK" THEN 1 ELSE 0)),
                                   LAMBDA e : e.code = c)
          IN  /\ (resp.status = "OK") <=> (earlier = <<>>)
              /\ (resp.status = "CONFLICT") <=> (earlier # <<>>)
              /\ resp.status = "CONFLICT" =>
                    LET first == earlier[1]
                        row == Unwrap(SelectUrl(c))
                    IN  /\ row.target_url = Trim(first.req.url)
                        /\ row.expires_at = first.req.expires_at
                        /\ row.created_at = Rfc3339Format(first.at)
                        /\ Len(urls) = Len(created)

\* C2 witness: with no other request in flight, a second request for an
\* existing custom code, asking for another target, is answered Conflict.
C2_Witness ==
    /\ CustomCreateAnswered
    /\ resp.status = "CONFLICT"
    /\ resp.attempts = 1
    /\ \A q \in Procs : pc[q] = "idle"
    /\ Creations(Unwrap(resp.req.custom_code))[1].req.url # resp.req.url

-----------------------------------------------------------------------------
(* SpecResolve: creation and resolution while time passes.  Links are      *)
(* created with a generated or a custom code, without expiry, with an      *)
(* expiry that passes during the run, or with one already past.            *)

ResolvePayloads ==
    { Payload(UrlA, None, None),
      Payload(UrlA, None, Some(ExpFuture)),
      Payload(UrlB, Some(CodeAbc), Some(ExpPast)) }

ResolveCodes == GeneratedCodes \cup {CodeAbc}

ResolveHeaders == {NoHeaders, HeadersPublic}

\* Worker 1 is the client that creates links, the others resolve them.
Creators == {1}
Resolvers == Procs \ Creators

ResolveShorten(p) ==
    \E payload \in ResolvePayloads : ShortenRequest(p, NoHeaders, payload)

ResolveRedirect(p) ==
    \E code \in ResolveCodes, h \in ResolveHeaders :
        RedirectRequest(p, code, h, MaxResolutions)

NextResolve ==
    \/ Tick(MaxTime)
    \/ \E p \in Creators :
          \/ ResolveShorten(p)
          \/ ShortenHandler(p)
          \/ ShortenRetry(p)
    \/ \E p \in Resolvers :
          \/ ResolveRedirect(p)
          \/ RedirectLookup(p)
          \/ RedirectInsert(p, MaxLost)

SpecResolve == Init /\ [][NextResolve]_vars

\* The expires_at of the stored link with code c (None if it has none).
StoredExpiryOf(c) == Unwrap(SelectUrl(c)).expires_at

\* The redirect responses delivered for code c, oldest first.
Resolutions(c) == SelectSeq(resolutions, LAMBDA e : e.code = c)

\* The last step answered a resolution request (a handler that panicked
\* on a failed SELECT answered nothing).
RedirectAnswered ==
    /\ resp.req.op = "redirect"
    /\ resp.status \notin {"NONE", "PANIC"}

\* Creation e asked for an expiry that instant t has reached.
ExpiredAt(e, t) ==
    /\ IsSome(e.req.expires_at)
    /\ Unwrap(Rfc3339Parse(Unwrap(e.req.expires_at))) <= t

\* Creation e asked for an expiry earlier than its own instant.
BornExpired(e) ==
    /\ IsSome(e.req.expires_at)
    /\ Unwrap(Rfc3339Parse(Unwrap(e.req.expires_at))) < e.at

\* Every row of urls is what the creation that made it asked for.
LinksAsCreated ==
    /\ Len(urls) = Len(created)
    /\ \A i \in 1..Len(urls) :
          /\ urls[i].code = created[i].code
          /\ urls[i].target_url = Trim(created[i].req.url)
          /\ urls[i].expires_at = created[i].req.expires_at
          /\ urls[i].created_at = Rfc3339Format(created[i].at)

\* C3: a link created without a custom code gets a code of exactly 7
\* symbols, all of [A-Za-z0-9]; resolving that code is answered, while the
\* link is not expired, by a redirect, and every redirect for it goes to
\* the submitted URL with surrounding whitespace trimmed.
C3_GeneratedCodeResolves ==
    /\ (/\ resp.req.op = "shorten"
        /\ resp.req.custom_code = None
        /\ resp.status = "OK")
          => /\ Len(resp.code) = 7
             /\ \A i \in 1..Len(resp.code) : resp.code[i] \in AsciiAlphanumeric
    /\ (/\ RedirectAnswered
        /\ Creations(resp.req.code) # <<>>
        /\ Creations(resp.req.code)[1].req.custom_code = None)
          => LET e == Creations(resp.req.code)[1]
             IN  /\ ~ExpiredAt(e, now) => resp.status = "TEMPORARY_REDIRECT"
                 /\ resp.status = "TEMPORARY_REDIRECT"
                       => resp.location = Trim(e.req.url)

\* C3 witness: a redirect for a generated code whose link was submitted
\* with whitespace around its URL.
C3_Witness ==
    /\ RedirectAnswered
    /\ resp.status = "TEMPORARY_REDIRECT"
    /\ Creations(resp.req.code) # <<>>
    /\ Creations(resp.req.code)[1].req.custom_code = None
    /\ Len(resp.req.code) = 7
    /\ Creations(resp.req.code)[1].req.url # resp.location

\* C4: a creation request whose expires_at lies in the past is not
\* rejected for it; every resolution of the link it creates is answered
\* Gone, and no click is ever stored for its code.
C4_BornExpiredAlwaysGone ==
    /\ (/\ resp.req.op = "shorten"
        /\ resp.status # "TOO_MANY_REQUESTS"
        /\ resp.fault = "none"
        /\ IsSome(resp.req.expires_at)
        /\ Rfc3339Parse(Unwrap(resp.req.expires_at)) # None
        /\ Unwrap(Rfc3339Parse(Unwrap(resp.req.expires_at))) < now
        /\ ShortenValidate([resp.req EXCEPT !.expires_at = None]) = "ok")
          => \/ resp.status = "OK"
             \/ resp.status = "CONFLICT" /\ IsSome(resp.req.custom_code)
             \/ resp.attempts = 8 /\ resp.req.custom_code = None
    /\ (/\ RedirectAnswered
        /\ Creations(resp.req.code) # <<>>
        /\ BornExpired(Creations(resp.req.code)[1]))
          => resp.status = "GONE"
    /\ \A i \in 1..Len(clicks) :
          \A j \in 1..Len(created) :
              created[j].code = clicks[i].code => ~BornExpired(created[j])

\* C4 witness: a link created already expired is resolved at a later
\* instant and the answer is Gone.
C4_Witness ==
    /\ RedirectAnswered
    /\ resp.status = "GONE"
    /\ Creations(resp.req.code) # <<>>
    /\ BornExpired(Creations(resp.req.code)[1])
    /\ now > Creations(resp.req.code)[1].at

\* C5 as stated: a link whose expiry is absent or in the future resolves
\* with a redirect, and every code has exactly as many clicks as redirects
\* were delivered for it.
C5_ClickPerResolution ==
    /\ (/\ RedirectAnswered
        /\ Creations(resp.req.code) # <<>>
        /\ ~ExpiredAt(Creations(resp.req.code)[1], now))
          => resp.status = "TEMPORARY_REDIRECT"
    /\ \A c \in ResolveCodes : CountClicks(c) = Len(Resolutions(c))

\* C5 amended: a link whose expiry is absent or in the future resolves
\* with a redirect, and every code has exactly one click per delivered
\* redirect whose INSERT into clicks the store executed, from that
\* redirect's client, and none for a redirect whose INSERT failed.
C5_ClickPerRecordedResolution ==
    /\ (/\ RedirectAnswered
        /\ Creations(resp.req.code) # <<>>
        /\ ~ExpiredAt(Creations(resp.req.code)[1], now))
          => resp.status = "TEMPORARY_REDIRECT"
    /\ \A c \in ResolveCodes :
          LET recorded == SelectSeq(Resolutions(c), LAMBDA e : e.recorded)
          IN  /\ CountClicks(c) = Len(recorded)
              /\ \A i \in 1..Len(recorded) : ClicksOf(c)[i].ip = recorded[i].ip

\* C5 witness: two redirects were delivered for a code, the INSERT of one
\* failed, and the code has one click.
C5_Witness ==
    \E c \in ResolveCodes :
        /\ Len(Resolutions(c)) = 2
        /\ CountClicks(c) = 1
        /\ RedirectAnswered
        /\ resp.req.code = c

\* C10: when the INSERT into clicks fails, the resolution is still
\* answered by the redirect to the link's target, not by an error, and the
\* links are what their creations stored.
C10_ClickFailureAbsorbed ==
    resp.fault = "clicks_insert" =>
        /\ resp.req.op = "redirect"
        /\ resp.status = "TEMPORARY_REDIRECT"
        /\ Creations(resp.req.code) # <<>>
        /\ resp.location = Trim(Creations(resp.req.code)[1].req.url)
        /\ LinksAsCreated

\* C10 witness: a resolution whose INSERT into clicks the store failed
\* has been answered, and no click was stored for it.
C10_Witness ==
    /\ resp.fault = "clicks_insert"
    /\ resp.status = "TEMPORARY_REDIRECT"
    /\ CountClicks(resp.req.code) < Len(Resolutions(resp.req.code))

\* The stored link of click c has an expiry and c is dated before it.
DatedBeforeExpiry(c) ==
    LET e == StoredExpiryOf(c.code)
    IN  e # None => Unwrap(Rfc3339Parse(c.at)) < Unwrap(Rfc3339Parse(e[1]))

\* C27 as stated: every recorded click is dated strictly before the
\* expires_at of its link, when the link has one.
C27_ClickBeforeExpiry ==
    \A i \in 1..Len(clicks) : DatedBeforeExpiry(clicks[i])

\* C27, amended: a click is recorded only by a resolution whose expiry
\* check passed, at an instant strictly before the link's expires_at; the
\* click is dated with the instant of its INSERT, which is that of the
\* check or later.
C27_ClickAfterPassedCheck ==
    /\ [](\A p \in Procs :
            pc[p] \in {"redirect_lookup", "redirect_insert"} =>
                /\ loc[p].checked <= now
                /\ LET e == StoredExpiryOf(req[p].code)
                   IN  e # None =>
                         loc[p].checked < Unwrap(Rfc3339Parse(e[1])))
    /\ [][\A p \in Procs :
            (/\ pc[p] = "redirect_insert"
             /\ pc'[p] = "idle"
             /\ Len(clicks') > Len(clicks)) =>
                /\ clicks' = Append(clicks, clicks'[Len(clicks')])
                /\ clicks'[Len(clicks')].code = req[p].code
                /\ clicks'[Len(clicks')].at = Rfc3339Format(now)
                /\ Unwrap(Rfc3339Parse(clicks'[Len(clicks')].at))
                      >= loc[p].checked]_vars

\* C27 witness: a click dated at the very expires_at of its link: the
\* check passed before and the INSERT came after the clock had moved on.
C27_Witness ==
    \E i \in 1..Len(clicks) :
        /\ StoredExpiryOf(clicks[i].code) # None
        /\ clicks[i].at = Unwrap(StoredExpiryOf(clicks[i].code))

-----------------------------------------------------------------------------
(* SpecLimiter: the rate limiter in front of link creation.  Two clients,  *)
(* one identified by x-forwarded-for and one without the header, send      *)
(* creation requests while the window slides.                              *)

LimiterPayloads == {Payload(UrlA, Some(CodeAbc), None)}

LimiterHeaders == {NoHeaders, HeadersPublic}

LimiterShorten(p) ==
    \E h \in LimiterHeaders, payload \in LimiterPayloads :
        ShortenRequest(p, h, payload)

NextLimiter ==
    \/ Tick(LimiterMaxTime)
    \/ \E p \in Procs :
          \/ LimiterShorten(p)
          \/ ShortenHandler(p)

SpecLimiter == Init /\ [][NextLimiter]_vars

\* The instants at which requests of key k were admitted, oldest first.
AdmittedOf(k) == IF k \in DOMAIN admitted THEN admitted[k] ELSE <<>>

\* How many of the first n admissions of key k lie less than a window
\* before instant t.
AdmittedInWindow(k, n, t) ==
    Cardinality({i \in 1..n : t - AdmittedOf(k)[i] < Window})

\* C6: a request is rejected with RateLimited only when its own key has
\* `limit` admissions inside the window that ends at the request, and it
\* is admitted only when its key has fewer; the admissions of other keys
\* do not count.
C6_LimitPerKey ==
    /\ resp.status = "TOO_MANY_REQUESTS" =>
          /\ resp.req.op = "shorten"
          /\ LET k == ClientIpOrLocal(resp.req.headers)
             IN  AdmittedInWindow(k, Len(AdmittedOf(k)), now) = Limit
    /\ \A k \in DOMAIN admitted :
          \A j \in 1..Len(admitted[k]) :
              AdmittedInWindow(k, j - 1, admitted[k][j]) < Limit

\* C6 witness: a key with `limit` admissions in the window has its next
\* request rejected, and a request of another key was admitted after the
\* first key had reached its limit, inside the same window.
C6_Witness ==
    /\ resp.status = "TOO_MANY_REQUESTS"
    /\ LET k == ClientIpOrLocal(resp.req.headers)
       IN  /\ AdmittedInWindow(k, Len(AdmittedOf(k)), now) = Limit
           /\ \E k2 \in DOMAIN admitted \ {k} :
                 \E j \in 1..Len(admitted[k2]) :
                     /\ admitted[k2][j] >= admitted[k][Len(admitted[k])]
                     /\ now - admitted[k2][j] < Window

\* The keys some list of the limiter is held for, before or after a step.
LimiterKeys == DOMAIN limiter \cup DOMAIN limiter'

LimiterEntryAfter(k) == IF k \in DOMAIN limiter' THEN limiter'[k] ELSE <<>>

\* list `after` is list `before` without timestamps that have left the
\* window at instant t, whether or not the window's far edge is counted in.
Pruned(before, after, t) ==
    \/ after = SelectSeq(before, LAMBDA x : t - x < Window)
    \/ after = SelectSeq(before, LAMBDA x : t - x <= Window)

\* Every list but that of key k is the same after the step.
OtherKeysUnchanged(k) ==
    \A k2 \in LimiterKeys \ {k} : LimiterEntryAfter(k2) = LimiterEntry(k2)

\* C17: a rejected allow(key) records nothing: the key's list is what it
\* was, pruned at most, and no other key's list changes; an accepted call
\* appends the one timestamp `now` to the pruned list of its own key and
\* changes no other list; no other step changes the limiter at all.
C17_RejectionRecordsNothing ==
    [][LET rejected == /\ resp'.status = "TOO_MANY_REQUESTS"
                       /\ \A p \in Procs : pc'[p] = pc[p]
           accepted == {p \in Procs : pc[p] = "idle" /\ pc'[p] = "shorten"}
       IN  /\ rejected =>
                LET k == ClientIpOrLocal(resp'.req.headers)
                IN  /\ Pruned(LimiterEntry(k), LimiterEntryAfter(k), now)
                    /\ OtherKeysUnchanged(k)
                    /\ admitted' = admitted
           /\ \A p \in accepted :
                LET k == ClientIpOrLocal(req'[p].headers)
                IN  /\ LimiterEntryAfter(k) # <<>>
                    /\ LimiterEntryAfter(k)[Len(LimiterEntryAfter(k))] = now
                    /\ Pruned(LimiterEntry(k),
                              SubSeq(LimiterEntryAfter(k), 1,
                                     Len(LimiterEntryAfter(k)) - 1), now)
                    /\ OtherKeysUnchanged(k)
           /\ (~rejected /\ accepted = {}) =>
                \A k \in LimiterKeys : LimiterEntryAfter(k) = LimiterEntry(k)
      ]_vars

\* C17 witness: a request of one key is rejected while that key's list
\* holds `limit` timestamps, an older admission of it has been pruned, and
\* another key holds a list of its own.
C17_Witness ==
    /\ resp.status = "TOO_MANY_REQUESTS"
    /\ LET k == ClientIpOrLocal(resp.req.headers)
       IN  /\ Len(LimiterEntry(k)) = Limit
           /\ Len(AdmittedOf(k)) > Limit
           /\ \E k2 \in DOMAIN limiter \ {k} : limiter[k2] # <<>>

\* The allow calls of a step: the key of each request that was rejected or
\* admitted by it.
AllowCalls ==
    (IF resp'.status = "TOO_MANY_REQUESTS" /\ pc' = pc
     THEN {ClientIpOrLocal(resp'.req.headers)} ELSE {})
    \cup {ClientIpOrLocal(req'[p].headers) :
            p \in {q \in Procs : pc[q] = "idle" /\ pc'[q] = "shorten"}}

\* C18: allow(key) at instant now drops exactly the timestamps older than
\* now - window: one whose age equals the window (t = now - window) stays
\* in the list and counts against the limit, so a call is admitted only
\* when fewer than `limit` timestamps of age <= window are held.
C18_WindowEdgeCounts ==
    [][\A k \in AllowCalls :
          LET kept == SelectSeq(LimiterEntry(k), LAMBDA x : now - x <= Window)
          IN  IF Len(kept) >= Limit
              THEN /\ resp'.status = "TOO_MANY_REQUESTS"
                   /\ LimiterEntryAfter(k) = kept
              ELSE LimiterEntryAfter(k) = Append(kept, now)]_vars

\* C19: the calls of allow for a key are serialized by the mutex, in
\* whatever order concurrent requests reach it: in every reachable state
\* the list of each key holds at most `limit` timestamps, all of them
\* admissions of that key, and at most `limit` admissions of a key fall in
\* the trailing window that ends at any instant.
C19_AtMostLimitInWindow ==
    /\ DOMAIN limiter = DOMAIN admitted
    /\ \A k \in DOMAIN limiter :
          /\ Len(limiter[k]) <= Limit
          /\ \A i \in 1..Len(limiter[k]) :
                \E j \in 1..Len(admitted[k]) : admitted[k][j] = limiter[k][i]
          /\ \A t \in 1..LimiterMaxTime :
                Cardinality({j \in 1..Len(admitted[k]) :
                               /\ admitted[k][j] <= t
                               /\ t - admitted[k][j] < Window}) <= Limit

\* C19 witness: two requests of one key reached allow at the same instant
\* and were both admitted, one is still in its handler, and a third call
\* for the key at that instant is rejected.
C19_Witness ==
    /\ resp.status = "TOO_MANY_REQUESTS"
    /\ LET k == ClientIpOrLocal(resp.req.headers)
       IN  /\ LimiterEntry(k) = [i \in 1..Limit |-> now]
           /\ \E p \in Procs :
                 /\ pc[p] = "shorten"
                 /\ ClientIpOrLocal(req[p].headers) = k

-----------------------------------------------------------------------------
(* SpecStats: statistics requests beside creation and resolution.  One     *)
(* link never expires, the other is created already expired and so never   *)
(* gets a click; the store may fail any statement of a statistics request  *)
(* and the INSERT of a click.                                              *)

StatsPayloads ==
    { Payload(UrlA, Some(CodeAbc), None),
      Payload(UrlB, Some(CodeCba), Some(ExpPast)) }

StatsCodes == {CodeAbc, CodeCba}

StatsHeaders == {NoHeaders, HeadersRO}

StatsShorten(p) ==
    \E payload \in StatsPayloads : ShortenRequest(p, NoHeaders, payload)

StatsRedirect(p) ==
    \E code \in StatsCodes, h \in StatsHeaders :
        RedirectRequest(p, code, h, MaxResolutions)

StatsGet(p) == \E code \in StatsCodes : StatsRequest(p, code)

NextStats ==
    \/ \E p \in Creators :
          \/ StatsShorten(p)
          \/ ShortenHandler(p)
    \/ \E p \in Resolvers :
          \/ StatsRedirect(p)
          \/ RedirectInsert(p, MaxLost)
    \/ \E p \in Procs :
          \/ StatsGet(p)
          \/ StatsTotal(p)
          \/ StatsUnique(p)
          \/ StatsCountries(p)

SpecStats == Init /\ [][NextStats]_vars

\* The last step answered a statistics request with the statistics.
StatsOk ==
    /\ resp.req.op = "stats"
    /\ resp.status = "OK"

\* No redirect was delivered while the answered statistics request ran.
StatsUndisturbed == resp.since = Len(resolutions)

\* The distinct client addresses in a sequence of resolutions.
Visitors(rs) == {rs[i].ip : i \in 1..Len(rs)}

\* C7 as stated: statistics taken after N redirects were delivered for a
\* code, to K distinct client addresses, report total_clicks = N and
\* unique_visitors = K.
C7_StatsCountResolutions ==
    (StatsOk /\ StatsUndisturbed) =>
        /\ resp.total_clicks = Len(Resolutions(resp.req.code))
        /\ resp.unique_visitors = Cardinality(Visitors(Resolutions(resp.req.code)))

\* C7 amended: statistics taken after the redirects report as
\* total_clicks the number of redirects whose INSERT into clicks the store
\* executed and as unique_visitors the number of distinct client addresses
\* among those; a redirect whose INSERT failed is not counted.
C7_StatsCountRecorded ==
    (StatsOk /\ StatsUndisturbed) =>
        LET recorded == SelectSeq(Resolutions(resp.req.code),
                                  LAMBDA e : e.recorded)
        IN  /\ resp.total_clicks = Len(recorded)
            /\ resp.unique_visitors = Cardinality(Visitors(recorded))
            /\ resp.total_clicks <= Len(Resolutions(resp.req.code))

\* C7 witness: statistics after two recorded redirects to one client
\* address: two clicks, one visitor.
C7_Witness ==
    /\ StatsOk
    /\ StatsUndisturbed
    /\ Len(Resolutions(resp.req.code)) = 2
    /\ resp.total_clicks = 2
    /\ resp.unique_visitors = 1

\* Every row of clicks is the click of a redirect whose INSERT the store
\* executed, in the order of delivery.
ClicksAsRecorded ==
    LET recorded == SelectSeq(resolutions, LAMBDA e : e.recorded)
    IN  /\ Len(clicks) = Len(recorded)
        /\ \A i \in 1..Len(clicks) :
              /\ clicks[i].code = recorded[i].code
              /\ clicks[i].ip = recorded[i].ip

\* C9: a statistics request whose statements the store serves is
\* answered NotFound exactly when no link has the code and with the
\* statistics exactly when one has, expired or not, with zero counts when
\* the code has no click; no statistics request creates or changes a link
\* or a click.
C9_StatsNotFoundIffNoLink ==
    (resp.req.op = "stats" /\ resp.status # "NONE") =>
        /\ resp.fault = "none" =>
              /\ (resp.status = "NOT_FOUND") <=> (Creations(resp.req.code) = <<>>)
              /\ (resp.status = "OK") <=> (Creations(resp.req.code) # <<>>)
        /\ (resp.status = "OK" /\ StatsUndisturbed /\ CountClicks(resp.req.code) = 0)
              => /\ resp.total_clicks = 0
                 /\ resp.unique_visitors = 0
                 /\ resp.top_countries = <<>>
        /\ LinksAsCreated
        /\ ClicksAsRecorded

\* C9 witness: the statistics of a link that was created already expired
\* and has no click are delivered, all counts zero.
C9_Witness ==
    /\ StatsOk
    /\ Creations(resp.req.code) # <<>>
    /\ BornExpired(Creations(resp.req.code)[1])
    /\ resp.total_clicks = 0
    /\ Len(clicks) > 0

-----------------------------------------------------------------------------
(* SpecTop: the country ranking.  One link is resolved by clients of       *)
(* eleven countries, one more than the ranking holds, some of them twice,  *)
(* and by one client of unknown country, while its statistics are asked    *)
(* for.  The store executes every INSERT of a click here.                  *)

TopCountryNames ==
    <<"AA", "BB", "CC", "DD", "EE", "FF", "GG", "HH", "II", "JJ", "KK">>

TopUnknownAt == Len(TopCountryNames) + 1

\* The headers of the k-th resolution: the first eleven come from the
\* eleven countries, the twelfth has no country, the later ones come from
\* the countries again, last country first.
TopHeadersAt(k) ==
    IF k = TopUnknownAt THEN NoHeaders
    ELSE LET n == Len(TopCountryNames)
             i == IF k <= n THEN k ELSE n - ((k - TopUnknownAt - 1) % n)
         IN  [Xff(<<"9.9.9.9">>) EXCEPT
                 !.cf_ipcountry = Some(<<TopCountryNames[i]>>)]

TopPayloads == {Payload(UrlA, Some(CodeAbc), None)}

TopShorten(p) ==
    \E payload \in TopPayloads : ShortenRequest(p, NoHeaders, payload)

TopRedirect(p) ==
    RedirectRequest(p, CodeAbc,
                    TopHeadersAt(Len(resolutions) + InFlightRedirects + 1),
                    TopResolutions)

TopGet(p) == StatsRequest(p, CodeAbc)

NextTop ==
    \/ \E p \in Creators :
          \/ TopShorten(p)
          \/ ShortenHandler(p)
          \/ TopGet(p)
          \/ StatsTotal(p)
          \/ StatsUnique(p)
          \/ StatsCountries(p)
    \/ \E p \in Resolvers :
          \/ TopRedirect(p)
          \/ RedirectInsert(p, 0)

SpecTop == Init /\ [][NextTop]_vars

\* The non-null country values among the clicks of code c.
ClickCountries(c) ==
    {Unwrap(clicks[i].country) :
        i \in {j \in 1..Len(clicks) :
                  clicks[j].code = c /\ IsSome(clicks[j].country)}}

\* The clicks of code c from country n.
ClicksFrom(c, n) ==
    Cardinality({i \in 1..Len(clicks) :
                   clicks[i].code = c /\ clicks[i].country = Some(n)})

RECURSIVE SumClicks(_)
SumClicks(top) ==
    IF top = <<>> THEN 0 ELSE Head(top).clicks + SumClicks(Tail(top))

\* What C8 says of the entries of top_countries: one per non-null
\* country, with that country's number of clicks; at most 10, and all
\* countries when there are no more than 10; no country left out has more
\* clicks than one listed; counts descending.
TopEntries(c, top) ==
    /\ \A i \in 1..Len(top) :
          /\ top[i].country \in ClickCountries(c)
          /\ top[i].clicks = ClicksFrom(c, top[i].country)
    /\ \A i, j \in 1..Len(top) : top[i].country = top[j].country => i = j
    /\ Len(top) = IF Cardinality(ClickCountries(c)) < 10
                  THEN Cardinality(ClickCountries(c)) ELSE 10
    /\ \A n \in ClickCountries(c) \ {top[i].country : i \in 1..Len(top)} :
          \A i \in 1..Len(top) : top[i].clicks >= ClicksFrom(c, n)
    /\ \A i, j \in 1..Len(top) : i < j => top[i].clicks >= top[j].clicks

\* C8 as stated: the entries are as above and their counts sum to at most
\* the total_clicks of the same response.
C8_TopCountriesWithinTotal ==
    StatsOk =>
        /\ TopEntries(resp.req.code, resp.top_countries)
        /\ SumClicks(resp.top_countries) <= resp.total_clicks

\* C8 amended: the entries are as above; their counts sum to at most the
\* number of the code's clicks when the ranking is computed, and to at
\* most total_clicks when no redirect was delivered while the statistics
\* request ran.
C8_TopCountries ==
    StatsOk =>
        /\ TopEntries(resp.req.code, resp.top_countries)
        /\ SumClicks(resp.top_countries) <= CountClicks(resp.req.code)
        /\ StatsUndisturbed =>
              SumClicks(resp.top_countries) <= resp.total_clicks

\* C8 witness: statistics of a link with clicks from eleven countries
\* and one of unknown country: the ranking holds ten entries, the first
\* with more clicks than the last.
C8_Witness ==
    /\ StatsOk
    /\ StatsUndisturbed
    /\ Cardinality(ClickCountries(resp.req.code)) = 11
    /\ \E i \in 1..Len(clicks) : clicks[i].country = None
    /\ Len(resp.top_countries) = 10
    /\ resp.top_countries[1].clicks > resp.top_countries[10].clicks
    /\ SumClicks(resp.top_countries) < resp.total_clicks

-----------------------------------------------------------------------------
(* Resolution: what the response waits for.                                *)

\* C11: the response of a resolution does not wait for the country lookup
\* or for the INSERT into clicks: no resolution request is left unanswered
\* while its lookup or its INSERT is outstanding.
C11_RedirectDoesNotWait ==
    \A p \in Procs :
        req[p].op = "redirect" =>
            pc[p] \notin {"redirect_lookup", "redirect_insert"}

-----------------------------------------------------------------------------
(* Creation: validation, the retry loop and store errors (SpecCreate).     *)

\* C12: a creation request the limiter admitted is rejected as invalid
\* input exactly when its trimmed URL does not start with http:// or
\* https://, or its expires_at is present and does not parse, or its custom
\* code is present and is not 3..32 symbols of [A-Za-z0-9_-]; the first of
\* these checks that fails, in this order, names the error; a rejected
\* request has attempted no INSERT and the links are what they were.
C12_ValidationOrder ==
    LET q == resp.req
        c == Unwrap(q.custom_code)
        urlOk == \/ StartsWith(Trim(q.url), "http://")
                 \/ StartsWith(Trim(q.url), "https://")
        expOk == q.expires_at = None \/ Unwrap(q.expires_at)[1] = "ts"
        codeOk == \/ q.custom_code = None
                  \/ /\ Len(c) >= 3
                     /\ Len(c) <= 32
                     /\ \A i \in 1..Len(c) :
                           c[i] \in AsciiAlphanumeric \cup {"-", "_"}
    IN  (q.op = "shorten" /\ resp.status # "TOO_MANY_REQUESTS") =>
            /\ (resp.status = "BAD_REQUEST") <=> ~(urlOk /\ expOk /\ codeOk)
            /\ ~urlOk => resp.body = "url must start with http:// or https://"
            /\ (urlOk /\ ~expOk) =>
                  resp.body = "expires_at must be RFC3339 (e.g. 2026-01-31T00:00:00Z)"
            /\ (urlOk /\ expOk /\ ~codeOk) =>
                  resp.body \in {"custom_code must be 3-32 characters",
                                 "custom_code must be alphanumeric (plus - and _)"}
            /\ resp.status = "BAD_REQUEST" =>
                  /\ resp.attempts = 0
                  /\ resp.fault = "none"
                  /\ LinksAsCreated

\* C12 witness: a request whose expires_at and custom code are both
\* malformed is rejected for its expires_at, links existing.
C12_Witness ==
    /\ resp.req.op = "shorten"
    /\ resp.status = "BAD_REQUEST"
    /\ resp.req.custom_code = Some(CodeBadChar)
    /\ resp.req.expires_at = Some(ExpGarbage)
    /\ resp.body = "expires_at must be RFC3339 (e.g. 2026-01-31T00:00:00Z)"
    /\ urls # <<>>

-----------------------------------------------------------------------------
(* Resolution: the outcomes (SpecResolve).                                 *)

\* C13: every resolution request ends in exactly one of three outcomes:
\* NotFound when no link has the code, Gone when the link exists and has
\* expired, a redirect to its target otherwise; a NotFound resolution
\* stores no click and leaves the links as they were.
C13_ThreeOutcomes ==
    (resp.req.op = "redirect" /\ resp.status # "NONE") =>
        LET es == Creations(resp.req.code)
        IN  /\ resp.status \in {"NOT_FOUND", "GONE", "TEMPORARY_REDIRECT"}
            /\ (resp.status = "NOT_FOUND") <=> (es = <<>>)
            /\ resp.status = "GONE" => ExpiredAt(es[1], now)
            /\ (es # <<>> /\ ~ExpiredAt(es[1], now))
                  => resp.status = "TEMPORARY_REDIRECT"
            /\ resp.status = "TEMPORARY_REDIRECT"
                  => resp.location = Trim(es[1].req.url)
            /\ resp.status = "NOT_FOUND"
                  => /\ CountClicks(resp.req.code) = 0
                     /\ ClicksAsRecorded
                     /\ LinksAsCreated

\* SpecRetry: creation without custom code, by two clients, with the
\* scheduling the runtime gives a handler: a handler that can take its next
\* step eventually takes it (the store answers every INSERT, the executor
\* polls every ready task).
RetryPayloads == {Payload(UrlA, None, None)}

RetryShorten(p) ==
    \E h \in CreateHeaders, payload \in RetryPayloads :
        ShortenRequest(p, h, payload)

NextRetry ==
    \E p \in Procs :
        \/ RetryShorten(p)
        \/ ShortenHandler(p)
        \/ ShortenRetry(p)

SpecRetry ==
    /\ Init
    /\ [][NextRetry]_vars
    /\ \A p \in Procs :
          /\ WF_vars(ShortenHandler(p))
          /\ WF_vars(ShortenRetry(p))

\* What C14 says of every state: a request without custom code makes
\* between 1 and 8 INSERT attempts; a retry is pending only after fewer
\* than 8 attempts, all of them collisions with a stored code; the code
\* returned is the 7-symbol candidate of the row the last attempt stored;
\* a request that ends after 8 collisions is answered Internal, "failed to
\* generate code", and has stored no link.
GeneratedCodeAttempts ==
    /\ (/\ resp.req.op = "shorten"
        /\ resp.req.custom_code = None
        /\ resp.status \notin {"TOO_MANY_REQUESTS", "BAD_REQUEST"})
          => /\ resp.attempts >= 1
             /\ resp.attempts <= 8
             /\ resp.status \in {"OK", "INTERNAL_SERVER_ERROR"}
             /\ resp.status = "OK"
                   => /\ Len(resp.code) = 7
                      /\ urls[Len(urls)].code = resp.code
                      /\ Len(SelectSeq(urls, LAMBDA r : r.code = resp.code)) = 1
             /\ (resp.status = "INTERNAL_SERVER_ERROR" /\ resp.fault = "none")
                   => /\ resp.attempts = 8
                      /\ resp.body = "internal error: failed to generate code"
             /\ LinksAsCreated
    /\ \A p \in Procs :
          pc[p] = "shorten_retry"
             => /\ req[p].custom_code = None
                /\ loc[p].attempts >= 1
                /\ loc[p].attempts < 8
                /\ \E i \in 1..Len(urls) : Len(urls[i].code) = 7

\* C14: the above in every state, every turn of the loop that leaves the
\* request pending has made one more attempt, and every admitted request
\* is answered: the loop terminates.
C14_BoundedRetry ==
    /\ []GeneratedCodeAttempts
    /\ [][\A p \in Procs :
            (pc[p] = "shorten_retry" /\ pc'[p] = "shorten_retry")
               => \/ loc'[p] = loc[p]
                  \/ loc'[p].attempts = loc[p].attempts + 1]_vars
    /\ \A p \in Procs :
          (pc[p] \in {"shorten", "shorten_retry"}) ~> (pc[p] = "idle")

\* C14 witness: a request without custom code has collided 8 times and is
\* answered Internal; no link was stored for it.
C14_Witness ==
    /\ resp.req.op = "shorten"
    /\ resp.req.custom_code = None
    /\ resp.status = "INTERNAL_SERVER_ERROR"
    /\ resp.fault = "none"
    /\ resp.attempts = 8
    /\ Len(urls) = 1

\* An INSERT into urls that fails for another reason than the
\* uniqueness of the code ends the request at that attempt with Internal,
\* on the custom-code path (one attempt) and inside the retry loop alike,
\* and stores no link; Conflict is answered only for a custom code that a
\* stored link already has.
StoreErrorIsInternal ==
    /\ resp.fault = "urls_insert" =>
          /\ resp.req.op = "shorten"
          /\ resp.status = "INTERNAL_SERVER_ERROR"
          /\ resp.attempts >= 1
          /\ IsSome(resp.req.custom_code) => resp.attempts = 1
          /\ LinksAsCreated
    /\ resp.status = "CONFLICT" =>
          /\ resp.fault = "none"
          /\ IsSome(resp.req.custom_code)
          /\ Creations(Unwrap(resp.req.custom_code)) # <<>>

\* C15: (as above) in every state, and the step on which the INSERT fails
\* is the last step of its request: the worker leaves the handler, no row
\* is added, no further attempt is pending for it.
C15_StoreErrorIsInternal ==
    /\ []StoreErrorIsInternal
    /\ [][resp'.fault = "urls_insert" =>
            /\ urls' = urls
            /\ \E p \in Procs :
                  /\ pc[p] \in {"shorten", "shorten_retry"}
                  /\ pc'[p] = "idle"
                  /\ \A q \in Procs \ {p} : pc'[q] = pc[q]]_vars

\* C15 witness: inside the retry loop, after one collision, the second
\* INSERT fails in the store and the request is answered Internal.
C15_Witness ==
    /\ resp.fault = "urls_insert"
    /\ resp.req.custom_code = None
    /\ resp.status = "INTERNAL_SERVER_ERROR"
    /\ resp.attempts = 2

-----------------------------------------------------------------------------
(* SpecExpiry: resolution against a database file the service was started  *)
(* on.  shorten refuses an expires_at that is not RFC3339, so a row with   *)
(* corrupt expiry data is one the file already holds: the column is TEXT.  *)

StoredRow(code, expires_at) ==
    [code |-> code, target_url |-> Trim(UrlA), expires_at |-> expires_at,
     created_ip |-> None, created_at |-> Rfc3339Format(0)]

\* The first row never expires, expires during the run or has expired; the
\* second one holds expiry data that does not parse.
StoredTables ==
    { <<StoredRow(CodeAbc, e), StoredRow(CodeCba, Some(ExpGarbage))>> :
        e \in {None, Some(ExpFuture), Some(ExpPast)} }

ExpiryCodes == {CodeAbc, CodeCba, CodeShort}

InitExpiry ==
    /\ now = 1
    /\ limiter = <<>>
    /\ urls \in StoredTables
    /\ clicks = <<>>
    /\ pc = [p \in Procs |-> "idle"]
    /\ req = [p \in Procs |-> ReqInit]
    /\ loc = [p \in Procs |-> LocInit]
    /\ resp = NoResp
    /\ created = <<>>
    /\ admitted = <<>>
    /\ resolutions = <<>>

ExpiryRedirect(p) ==
    \E code \in ExpiryCodes, h \in ResolveHeaders :
        RedirectRequest(p, code, h, MaxResolutions)

NextExpiry ==
    \/ Tick(MaxTime)
    \/ \E p \in Procs :
          \/ ExpiryRedirect(p)
          \/ RedirectLookup(p)
          \/ RedirectInsert(p, MaxLost)

SpecExpiry == InitExpiry /\ [][NextExpiry]_vars

\* The expiry data of a row is a well-formed RFC3339 instant.
WellFormed(e) == Len(e) = 2 /\ e[1] = "ts"

\* What the specification says of expiry data e (absent: <<>>) at instant t.
ExpiredBySpec(e, t) ==
    CASE e = None -> FALSE
      [] e # None /\ WellFormed(e[1]) -> t >= e[1][2]
      [] OTHER -> TRUE

StoredExpiry(code) == Unwrap(SelectUrl(code)).expires_at

\* In every state is_expired agrees with the specification on every stored
\* row, and a row whose expiry data is corrupt has no click, no resolution
\* and no redirect past its expiry check.
ExpiryAsSpecified ==
    /\ \A i \in 1..Len(urls) :
          /\ is_expired(urls[i].expires_at, now)
                = ExpiredBySpec(urls[i].expires_at, now)
          /\ (urls[i].expires_at # None /\ ~WellFormed(urls[i].expires_at[1]))
                => /\ CountClicks(urls[i].code) = 0
                   /\ Resolutions(urls[i].code) = <<>>
                   /\ \A p \in Procs : req[p].code # urls[i].code
    /\ (resp.req.op = "redirect" /\ resp.status = "GONE") =>
          /\ SelectUrl(resp.req.code) # None
          /\ ExpiredBySpec(StoredExpiry(resp.req.code), now)
    /\ (resp.req.op = "redirect" /\ resp.status = "NOT_FOUND") =>
          SelectUrl(resp.req.code) = None

\* C16: is_expired is false without expiry data, true from the expiry
\* instant on (the instant itself included) when the data parses, and true
\* when it does not parse; a resolution is answered Gone exactly when the
\* row is expired in this sense at the instant of the check, records no
\* click then, and so a row with corrupt expiry data is never resolved.
C16_IsExpired ==
    /\ []ExpiryAsSpecified
    /\ [][/\ resp'.status = "GONE" => clicks' = clicks
          /\ \A p \in Procs :
                (pc[p] = "idle" /\ req'[p].op = "redirect") =>
                    /\ SelectUrl(req'[p].code) # None
                    /\ ~ExpiredBySpec(StoredExpiry(req'[p].code), now)]_vars

\* C16 witness: the row with corrupt expiry data is answered Gone at the
\* very instant the other row expires, after that one was resolved.
C16_Witness ==
    /\ resp.req.op = "redirect"
    /\ resp.req.code = CodeCba
    /\ resp.status = "GONE"
    /\ StoredExpiry(CodeCba) = Some(ExpGarbage)
    /\ CountClicks(CodeCba) = 0
    /\ StoredExpiry(CodeAbc) = Some(Rfc3339Format(now))
    /\ is_expired(StoredExpiry(CodeAbc), now)
    /\ CountClicks(CodeAbc) > 0

-----------------------------------------------------------------------------
(* SpecRouter: the four operations of the router side by side.  Creation   *)
(* requests come without x-forwarded-for, with one whose first entry is    *)
(* empty, and with two that name the same first address.                   *)

HeadersNoIp == Xff(<<",", "1.2.3.4">>)
HeadersSameIp == Xff(<<"1.2.3.4", " ", ",", "9.9.9.9">>)

RouterHeaders == {NoHeaders, HeadersNoIp, HeadersPublic, HeadersSameIp}

RouterPayloads ==
    { Payload(UrlA, Some(CodeAbc), None),
      Payload(UrlB, Some(CodeCba), None) }

RouterShorten(p) ==
    \E h \in RouterHeaders, payload \in RouterPayloads :
        ShortenRequest(p, h, payload)

RouterRedirect(p) ==
    \E h \in ResolveHeaders : RedirectRequest(p, CodeAbc, h, MaxResolutions)

RouterStats(p) == StatsRequest(p, CodeAbc)

NextRouter ==
    \/ \E p \in Creators :
          \/ RouterShorten(p)
          \/ ShortenHandler(p)
    \/ \E p \in Resolvers :
          \/ RouterRedirect(p)
          \/ RedirectLookup(p)
          \/ RedirectInsert(p, MaxLost)
          \/ RouterStats(p)
          \/ StatsTotal(p)
          \/ StatsUnique(p)
          \/ StatsCountries(p)
          \/ ListLinks(p)

SpecRouter == Init /\ [][NextRouter]_vars

\* The client address a request's x-forwarded-for determines, if any: the
\* text before the first comma, without surrounding whitespace.
ForwardedIp(headers) ==
    IF headers.xff = None THEN <<>> ELSE Trim(SplitFirst(headers.xff[1]))

\* The bucket the specification gives a creation request.
BucketOf(headers) ==
    IF ForwardedIp(headers) = <<>> THEN LOCAL_KEY ELSE ForwardedIp(headers)

\* In every state: only a creation request is answered RateLimited, and
\* the limiter holds lists for buckets of creation requests only.
OnlyCreationLimited ==
    /\ resp.status = "TOO_MANY_REQUESTS" => resp.req.op = "shorten"
    /\ DOMAIN limiter \subseteq {BucketOf(h) : h \in RouterHeaders}
    /\ \A i \in 1..Len(created) :
          BucketOf(created[i].req.headers) \in DOMAIN admitted

\* C20: only link creation consults the rate limiter, under the client
\* address its x-forwarded-for determines or else under the one key
\* "local"; a step of resolve, getStats or listLinkSummaries is never
\* answered RateLimited and leaves the limiter as it was.
C20_OnlyCreationConsultsLimiter ==
    /\ []OnlyCreationLimited
    /\ [][LET rejected == resp'.status = "TOO_MANY_REQUESTS"
              accepted == {p \in Procs : pc[p] = "idle" /\ pc'[p] = "shorten"}
          IN  /\ rejected =>
                   /\ Len(LimiterEntry(BucketOf(resp'.req.headers))) >= Limit
                   /\ OtherKeysUnchanged(BucketOf(resp'.req.headers))
              /\ \A p \in accepted :
                   /\ LimiterEntryAfter(BucketOf(req'[p].headers))
                        = Append(LimiterEntry(BucketOf(req'[p].headers)), now)
                   /\ OtherKeysUnchanged(BucketOf(req'[p].headers))
              /\ (~rejected /\ accepted = {}) =>
                   /\ limiter' = limiter
                   /\ admitted' = admitted
              /\ (\/ resp'.req.op \in {"redirect", "stats", "list"}
                  \/ \E p \in Procs :
                        /\ req'[p] # req[p]
                        /\ req'[p].op \in {"redirect", "stats", "list"}) =>
                   /\ limiter' = limiter
                   /\ admitted' = admitted]_vars

\* C20 witness: with `limit` links created by requests without
\* x-forwarded-for, a creation request whose x-forwarded-for names no
\* first address is rejected, all at one instant and after a link was
\* resolved.
C20_Witness ==
    /\ resp.status = "TOO_MANY_REQUESTS"
    /\ resp.req.headers = HeadersNoIp
    /\ Len(created) = Limit
    /\ \A i \in 1..Len(created) : created[i].req.headers = NoHeaders
    /\ AdmittedOf(LOCAL_KEY) = [i \in 1..Limit |-> now]
    /\ clicks # <<>>

\* C26: links and clicks are append-only.  Whatever step a creation, a
\* resolution, a statistics or a list request takes, every stored link
\* and every stored click stays where it is and as it is, rows are only
\* added at the end, and so the number of clicks of a code never
\* decreases; every link is still the one its creation asked for.
C26_AppendOnly ==
    /\ []LinksAsCreated
    /\ [][/\ Len(urls') >= Len(urls)
          /\ \A i \in 1..Len(urls) : urls'[i] = urls[i]
          /\ Len(clicks') >= Len(clicks)
          /\ \A i \in 1..Len(clicks) : clicks'[i] = clicks[i]
          /\ \A i \in 1..Len(urls) :
                CountClicks(urls[i].code)' >= CountClicks(urls[i].code)
          /\ (\/ resp'.req.op \in {"stats", "list"}
              \/ \E p \in Procs : req'[p].op = "stats" /\ pc'[p] # pc[p]) =>
                (urls' = urls /\ clicks' = clicks)]_vars

\* C26 witness: two links are stored and two clicks of different clients,
\* and the list of links, just answered, reports both clicks.
C26_Witness ==
    /\ resp.req.op = "list"
    /\ resp.status = "OK"
    /\ Len(urls) = 2
    /\ Len(clicks) = 2
    /\ clicks[1].ip # clicks[2].ip
    /\ resp.links[1].total_clicks = 2

-----------------------------------------------------------------------------
(* The text of the RateLimited response.                                   *)

\* The policy the one message of rate_limit_middleware names: "10
\* requests/minute".
MESSAGE_LIMIT == 10
MESSAGE_WINDOW == 60

\* The limit and the window (in instants) a RateLimited body reports.
ReportedPolicy(body) ==
    IF body = "rate limit exceeded (10 requests/minute)"
    THEN [limit |-> MESSAGE_LIMIT, window |-> MESSAGE_WINDOW]
    ELSE [limit |-> 0, window |-> 0]

\* C21: the message of a RateLimited response reports the limit and the
\* window the limiter was constructed with, whatever they are.
C21_MessageReportsConfiguration ==
    resp.status = "TOO_MANY_REQUESTS" =>
        ReportedPolicy(resp.body) = [limit |-> Limit, window |-> Window]

-----------------------------------------------------------------------------
(* SpecCountry: resolutions of one link by clients behind different        *)
(* proxies: with and without country headers, with blank ones, from        *)
(* public, private and loopback addresses and with no address at all.      *)

HeadersBlankCf ==
    [Xff(<<"1.2.3.4">>) EXCEPT !.cf_ipcountry = Some(<<" ", " ">>),
                               !.x_geo_country = Some(<<"D", "E", " ">>),
                               !.x_country = Some(<<"F", "R">>)]
HeadersXCountry == [NoHeaders EXCEPT !.x_country = Some(<<" ", "F", "R">>)]
HeadersPrivate == Xff(<<"10.", "0.0.5">>)
HeadersLocalhost == Xff(<<"127.0.0.1">>)
HeadersLoopback == Xff(<<"127.0.0.2">>)

CountryHeaderSets ==
    {NoHeaders, HeadersNoIp, HeadersPublic, HeadersRO, HeadersBlankCf,
     HeadersXCountry, HeadersPrivate, HeadersLocalhost, HeadersLoopback}

CountryPayloads == {Payload(UrlA, Some(CodeAbc), None)}

CountryShorten(p) ==
    \E h \in {NoHeaders, HeadersNoIp}, payload \in CountryPayloads :
        ShortenRequest(p, h, payload)

CountryRedirect(p) ==
    \E h \in CountryHeaderSets : RedirectRequest(p, CodeAbc, h, MaxResolutions)

NextCountry ==
    \/ \E p \in Creators :
          \/ CountryShorten(p)
          \/ ShortenHandler(p)
    \/ \E p \in Resolvers :
          \/ CountryRedirect(p)
          \/ RedirectLookup(p)
          \/ RedirectInsert(p, MaxLost)

SpecCountry == Init /\ [][NextCountry]_vars

\* The trimmed value of a country header, <<>> when absent or blank.
HeaderValue(headers, name) ==
    IF headers[name] = None THEN <<>> ELSE Trim(headers[name][1])

\* The country the trusted headers give, <<>> when none does.
ChainCountry(headers) ==
    IF HeaderValue(headers, "cf_ipcountry") # <<>>
    THEN HeaderValue(headers, "cf_ipcountry")
    ELSE IF HeaderValue(headers, "x_geo_country") # <<>>
    THEN HeaderValue(headers, "x_geo_country")
    ELSE HeaderValue(headers, "x_country")

\* The addresses among the clients that lie in a private range (RFC 1918)
\* or in the loopback range 127.0.0.0/8.
PrivateOrLoopback == {<<"10.", "0.0.5">>, <<"127.0.0.1">>, <<"127.0.0.2">>}

\* C22: the country of a click is that of the first of cf-ipcountry,
\* x-geo-country, x-country whose trimmed value is not empty; the lookup
\* by address is attempted only when there is none, never for a private
\* or loopback address nor without an address, and it yields a country of
\* exactly 2 characters or none; the click stores what the chain gave.
C22_CountryPriorityChain ==
    [][\A p \in Procs :
          LET h == req'[p].headers
          IN  /\ (pc[p] = "idle" /\ pc'[p] = "redirect_lookup") =>
                    /\ ChainCountry(h) = <<>>
                    /\ ForwardedIp(h) # <<>>
                    /\ ForwardedIp(h) \notin PrivateOrLoopback
              /\ (pc[p] = "idle" /\ pc'[p] = "redirect_insert") =>
                    loc'[p].country = IF ChainCountry(h) = <<>> THEN None
                                      ELSE Some(ChainCountry(h))
              /\ (pc[p] = "redirect_lookup" /\ pc'[p] # pc[p]) =>
                    /\ pc'[p] = "redirect_insert"
                    /\ \/ loc'[p].country = None
                       \/ /\ Len(loc'[p].country[1]) = 2
                          /\ Trim(loc'[p].country[1]) = loc'[p].country[1]
              /\ (/\ pc[p] = "redirect_insert"
                  /\ pc'[p] = "idle"
                  /\ Len(clicks') > Len(clicks)) =>
                    clicks'[Len(clicks')].country = loc[p].country]_vars

\* SpecDegrade: SpecCountry with the scheduling the code gives a redirect
\* past its expiry check.  The HTTP client of geo_country_lookup is built
\* with a 2 s timeout and the pool gives up acquiring a connection after
\* its own, so neither await is pending for ever.
SpecDegrade ==
    /\ Init
    /\ [][NextCountry]_vars
    /\ \A p \in Resolvers :
          /\ WF_vars(RedirectLookup(p))
          /\ WF_vars(RedirectInsert(p, MaxLost))

\* A redirect request is never answered with an error of the server.
NoRedirectError ==
    resp.req.op = "redirect" => resp.status # "INTERNAL_SERVER_ERROR"

\* C23: a resolution that found its link present and not expired always
\* ends, and ends with the redirect to the link's target: the lookup step
\* only ever hands a country or none to the insert (none when the exchange
\* failed or timed out), the insert step records the click with that
\* country and answers 307, and no redirect request is answered with an
\* error.
C23_LookupDegrades ==
    /\ []NoRedirectError
    /\ [][\A p \in Procs :
            /\ (pc[p] = "redirect_lookup" /\ pc'[p] # pc[p]) =>
                  /\ pc'[p] = "redirect_insert"
                  /\ req'[p] = req[p]
                  /\ loc'[p].target = loc[p].target
                  /\ clicks' = clicks
            /\ (pc[p] = "redirect_insert" /\ pc'[p] # pc[p]) =>
                  /\ resp'.req = req[p]
                  /\ resp'.status = "TEMPORARY_REDIRECT"
                  /\ resp'.location = loc[p].target
                  /\ Len(clicks') > Len(clicks) =>
                        /\ clicks'[Len(clicks')].country = loc[p].country
                        /\ clicks'[Len(clicks')].ip = loc[p].ip]_vars
    /\ \A p \in Resolvers :
          (pc[p] \in {"redirect_lookup", "redirect_insert"}) ~> (pc[p] = "idle")

\* C23 witness: a client with a public address and no country header is
\* redirected and its click is stored without a country: the lookup gave
\* none.
C23_Witness ==
    /\ resp.status = "TEMPORARY_REDIRECT"
    /\ resp.req.headers = HeadersPublic
    /\ resp.fault = "none"
    /\ resp.location = Trim(UrlA)
    /\ clicks # <<>>
    /\ clicks[Len(clicks)].ip = <<"1.2.3.4">>
    /\ clicks[Len(clicks)].country = None

\* The text of s after its first comma, <<>> when it has none.
RECURSIVE AfterFirstComma(_)
AfterFirstComma(s) ==
    IF s = <<>> THEN <<>>
    ELSE IF Head(s) = "," THEN Tail(s)
    ELSE AfterFirstComma(Tail(s))

\* The first entry of a comma-separated list that is not empty once
\* trimmed, <<>> when every entry is.
RECURSIVE FirstNonEmptyEntry(_)
FirstNonEmptyEntry(s) ==
    IF s = <<>> THEN <<>>
    ELSE IF Trim(SplitFirst(s)) # <<>> THEN Trim(SplitFirst(s))
    ELSE FirstNonEmptyEntry(AfterFirstComma(s))

\* The client of a request when empty forwarded-for entries are skipped.
ClientSkippingEmpty(headers) ==
    IF headers.xff = None \/ FirstNonEmptyEntry(headers.xff[1]) = <<>>
    THEN LOCAL_KEY
    ELSE FirstNonEmptyEntry(headers.xff[1])

\* C24: the client address of a request is the first forwarded-for entry
\* that is not empty, leading empty entries being skipped: that address
\* is the ip of the click a redirect records and the key under which a
\* creation request is admitted.
C24_SkipsEmptyEntries ==
    /\ (resp.status = "TEMPORARY_REDIRECT" /\ resp.fault = "none") =>
          clicks[Len(clicks)].ip = ClientSkippingEmpty(resp.req.headers)
    /\ \A p \in Procs :
          pc[p] = "shorten" =>
              ClientSkippingEmpty(req[p].headers) \in DOMAIN limiter

-----------------------------------------------------------------------------
(* SpecList: the list of links while links are created, one of them with   *)
(* an expiry that passes, and resolved, and the clock runs from one second *)
(* into the next.                                                          *)

ListStart == 9
ListMaxTime == 11
ListResolutions == 1

\* The service is started late in a second.
InitList ==
    /\ now = ListStart
    /\ limiter = <<>>
    /\ urls = <<>>
    /\ clicks = <<>>
    /\ pc = [p \in Procs |-> "idle"]
    /\ req = [p \in Procs |-> ReqInit]
    /\ loc = [p \in Procs |-> LocInit]
    /\ resp = NoResp
    /\ created = <<>>
    /\ admitted = <<>>
    /\ resolutions = <<>>

ListPayloads ==
    { Payload(UrlA, Some(CodeAbc), None),
      Payload(UrlB, Some(CodeCba), Some(Rfc3339Format(ListMaxTime))) }

ListShorten(p) ==
    \E payload \in ListPayloads : ShortenRequest(p, NoHeaders, payload)

ListRedirect(p) ==
    \E code \in {CodeAbc, CodeCba} :
        RedirectRequest(p, code, NoHeaders, ListResolutions)

NextList ==
    \/ Tick(ListMaxTime)
    \/ \E p \in Creators :
          \/ ListShorten(p)
          \/ ShortenHandler(p)
    \/ \E p \in Resolvers :
          \/ ListRedirect(p)
          \/ RedirectInsert(p, MaxLost)
          \/ ListLinks(p)

SpecList == InitList /\ [][NextList]_vars

\* C25: the list of links holds one summary for each stored link and no
\* other, a link without clicks included, with the link's own data, the
\* total_clicks and unique_visitors its statistics report at that moment
\* and expired as isExpired gives it, and a link created later stands
\* before one created earlier.
C25_ListLinkSummaries ==
    (resp.req.op = "list" /\ resp.status = "OK") =>
        /\ Len(resp.links) = Len(urls)
        /\ \A i \in 1..Len(urls) :
              \E j \in 1..Len(resp.links) :
                  /\ resp.links[j].code = urls[i].code
                  /\ resp.links[j].target_url = urls[i].target_url
                  /\ resp.links[j].created_at = urls[i].created_at
                  /\ resp.links[j].expires_at = urls[i].expires_at
                  /\ resp.links[j].total_clicks = CountClicks(urls[i].code)
                  /\ resp.links[j].unique_visitors
                        = Cardinality(Visitors(ClicksOf(urls[i].code)))
                  /\ resp.links[j].expired
                        = ExpiredBySpec(urls[i].expires_at, now)
        /\ \A i, j \in 1..Len(resp.links) :
              i < j => Unwrap(Rfc3339Parse(resp.links[i].created_at))
                          >= Unwrap(Rfc3339Parse(resp.links[j].created_at))

-----------------------------------------------------------------------------
(* Admission before validation.                                            *)

\* The handler of worker p answers on this step.
ShortenAnswers(p) ==
    /\ pc[p] \in {"shorten", "shorten_retry"}
    /\ pc'[p] = "idle"

\* C28: the limiter is asked before the request is looked at.  A creation
\* request is admitted or rejected on its key alone, valid or not; one
\* that is admitted holds a slot of its key from then on, whatever its
\* handler answers afterwards (InvalidInput, Conflict, Internal or
\* success); so a key with `limit` admissions in the window has its next
\* request rejected, a valid one included.
C28_AdmissionBeforeValidation ==
    /\ [](resp.status \in {"BAD_REQUEST", "CONFLICT", "INTERNAL_SERVER_ERROR"}
            => /\ resp.req.op = "shorten"
               /\ now \in Range(LimiterEntry(BucketOf(resp.req.headers))))
    /\ [][/\ \A p \in Procs :
              /\ ShortenAnswers(p) =>
                    /\ limiter' = limiter
                    /\ admitted' = admitted
                    /\ now \in Range(LimiterEntry(BucketOf(req[p].headers)))
              /\ (pc[p] = "idle" /\ pc'[p] = "shorten") =>
                    /\ Len(LimiterEntry(BucketOf(req'[p].headers))) < Limit
                    /\ LimiterEntryAfter(BucketOf(req'[p].headers))
                         = Append(LimiterEntry(BucketOf(req'[p].headers)), now)
          /\ (pc' = pc /\ resp'.req.op = "shorten") =>
                /\ resp'.status = "TOO_MANY_REQUESTS"
                /\ Len(LimiterEntry(BucketOf(resp'.req.headers))) >= Limit]_vars

\* C28 witness: a valid creation request is rejected although no link was
\* ever created: the `limit` admissions of its key all ended in failures
\* and every handler has returned.
C28_Witness ==
    /\ resp.status = "TOO_MANY_REQUESTS"
    /\ ShortenValidate(resp.req) = "ok"
    /\ created = <<>>
    /\ urls = <<>>
    /\ \A p \in Procs : pc[p] = "idle"
    /\ AdmittedOf(BucketOf(resp.req.headers)) = [i \in 1..Limit |-> now]

-----------------------------------------------------------------------------
(* Rejection ends with the window.                                         *)

\* C29: the list of a key is in order of admission, so its first entry is
\* the oldest retained one; a call of allow for a key at its limit, made
\* when a full window has passed since that entry, is admitted; and a
\* rejected call changes no list, so it cannot move that moment.
C29_RejectionNotPermanent ==
    /\ [](\A k \in DOMAIN limiter :
            \A i, j \in 1..Len(limiter[k]) :
                i <= j => limiter[k][i] <= limiter[k][j])
    /\ [][/\ \A k \in AllowCalls :
                (/\ Len(LimiterEntry(k)) = Limit
                 /\ now - LimiterEntry(k)[1] >= Window) =>
                    /\ resp'.status # "TOO_MANY_REQUESTS"
                    /\ LimiterEntryAfter(k)[Len(LimiterEntryAfter(k))] = now
          /\ (resp'.status = "TOO_MANY_REQUESTS" /\ pc' = pc) =>
                /\ limiter' = limiter
                /\ now - LimiterEntry(BucketOf(resp'.req.headers))[1] < Window
         ]_vars

\* C29 witness: a key took `limit` admissions at one instant and exactly
\* one window after them its next request is admitted.
C29_Witness ==
    \E p \in Procs :
        /\ pc[p] = "shorten"
        /\ LET a == AdmittedOf(BucketOf(req[p].headers))
           IN  /\ Len(a) = Limit + 1
               /\ a[Limit] = a[1]
               /\ a[Limit + 1] = a[1] + Window
               /\ a[Limit + 1] = now

====
